---- MODULE Spec2Model ----
(***************************************************************************)
(* A model of pyscript_3dapp_lib: utils.py (the data exchange layer) and    *)
(* libthree.py (the geometry factory).                                      *)
(*                                                                          *)
(* Text is a sequence of Unicode code points, a byte buffer a sequence of   *)
(* integers 0..255.  The library calls the source makes (csv, io, numpy,    *)
(* plyfile, geomie3d, three.js) are modelled by operators that follow the   *)
(* behaviour of the call at the line of the source that makes it.           *)
(***************************************************************************)
EXTENDS Integers, Sequences, FiniteSets, TLC

VARIABLES
    csv_pc, csv_rows, csv_buffer, csv_decoded,
    ply_pc, ply_rows, ply_dtype, ply_buffer, ply_data,
    cam_pc, cam_xyzs, cam_zoom, cam_place,
    vox_pc, vox_midpts, vox_colors, vox_side, vox_geometries, vox_outline,
    pts_pc, pts_positions, pts_colors, pts_points,
    link_calls, object_urls, downloads,
    get_pc, item_bits, host_read, promise, get_result, suspended,
    defaults, heap, heap_start, history, n_calls

csvVars == <<csv_pc, csv_rows, csv_buffer, csv_decoded>>

plyVars == <<ply_pc, ply_rows, ply_dtype, ply_buffer, ply_data>>

camVars == <<cam_pc, cam_xyzs, cam_zoom, cam_place>>

voxVars == <<vox_pc, vox_midpts, vox_colors, vox_side, vox_geometries, vox_outline>>

ptsVars == <<pts_pc, pts_positions, pts_colors, pts_points>>

hostVars == <<link_calls, object_urls, downloads,
              get_pc, item_bits, host_read, promise, get_result, suspended>>

callVars == <<defaults, heap, heap_start, history, n_calls>>

vars == <<csvVars, plyVars, camVars, voxVars, ptsVars, hostVars, callVars>>

(***************************************************************************)
(* Bounds of the model.                                                     *)
(***************************************************************************)
MaxFieldLen == 2
MaxCells == 2
MaxPlyCells == 3
MaxCamPts == 2
MaxVox == 2
MaxPts == 2
MaxLinkCalls == 2
MaxCalls == 2

(***************************************************************************)
(* Generic helpers on sequences.                                            *)
(***************************************************************************)
RECURSIVE Flatten(_)
Flatten(ss) == IF ss = <<>> THEN <<>> ELSE Head(ss) \o Flatten(Tail(ss))

SeqsUpTo(S, n) == UNION {[1..k -> S] : k \in 0..n}

(***************************************************************************)
(* Characters of the CSV alphabet, as code points.                          *)
(***************************************************************************)
LF == 10
CR == 13
DQUOTE == 34
COMMA == 44

\* The four characters the csv dialect treats specially, the letter 'a' (97)
\* and one character that takes two bytes in UTF-8 (233).
CsvChars == {97, 233, COMMA, DQUOTE, CR, LF}

(***************************************************************************)
(* io.TextIOWrapper(..., encoding='utf-8'): code points below 128 are one   *)
(* byte, code points below 2048 are two.                                    *)
(***************************************************************************)
Utf8EncodeChar(c) ==
    IF c < 128 THEN <<c>> ELSE <<192 + (c \div 64), 128 + (c % 64)>>

RECURSIVE Utf8Encode(_)
Utf8Encode(text) ==
    IF text = <<>> THEN <<>>
    ELSE Utf8EncodeChar(Head(text)) \o Utf8Encode(Tail(text))

RECURSIVE Utf8Decode(_)
Utf8Decode(bytes) ==
    IF bytes = <<>> THEN <<>>
    ELSE IF Head(bytes) < 128 THEN <<Head(bytes)>> \o Utf8Decode(Tail(bytes))
    ELSE <<(Head(bytes) - 192) * 64 + (bytes[2] - 128)>>
             \o Utf8Decode(Tail(Tail(bytes)))

(***************************************************************************)
(* csv.writer(text_buffer) with the default dialect: delimiter ',',         *)
(* quotechar '"', doublequote, lineterminator '\r\n', QUOTE_MINIMAL.        *)
(***************************************************************************)
NeedsQuote(f) == \E i \in 1..Len(f) : f[i] \in {COMMA, DQUOTE, CR, LF}

RECURSIVE DoubleQuotes(_)
DoubleQuotes(f) ==
    IF f = <<>> THEN <<>>
    ELSE (IF Head(f) = DQUOTE THEN <<DQUOTE, DQUOTE>> ELSE <<Head(f)>>)
             \o DoubleQuotes(Tail(f))

WriteField(f) ==
    IF NeedsQuote(f) THEN <<DQUOTE>> \o DoubleQuotes(f) \o <<DQUOTE>> ELSE f

RECURSIVE JoinFields(_)
JoinFields(row) ==
    IF row = <<>> THEN <<>>
    ELSE IF Len(row) = 1 THEN WriteField(row[1])
    ELSE WriteField(Head(row)) \o <<COMMA>> \o JoinFields(Tail(row))

\* writerow: a record that came out empty although it has a field (one empty
\* string) is written as a pair of quotes.
WriteRow(row) ==
    LET rec == JoinFields(row)
    IN  (IF Len(row) > 0 /\ rec = <<>> THEN <<DQUOTE, DQUOTE>> ELSE rec)
            \o <<CR, LF>>

RECURSIVE WriteRows(_)
WriteRows(rows) ==
    IF rows = <<>> THEN <<>> ELSE WriteRow(Head(rows)) \o WriteRows(Tail(rows))

\* write_csv_web: the wrapper is opened with newline='', so the text is
\* encoded as written.
write_csv_web(rows) == Utf8Encode(WriteRows(rows))

(***************************************************************************)
(* read_csv_web: io.TextIOWrapper(grid_bstream, encoding='utf-8') is opened *)
(* without a newline argument, which is universal-newlines mode: on input   *)
(* '\r\n' and '\r' are translated to '\n' before the caller sees the text.  *)
(***************************************************************************)
RECURSIVE UniversalNewlines(_)
UniversalNewlines(text) ==
    IF text = <<>> THEN <<>>
    ELSE IF Head(text) = CR
         THEN IF Len(text) >= 2 /\ text[2] = LF
              THEN <<LF>> \o UniversalNewlines(Tail(Tail(text)))
              ELSE <<LF>> \o UniversalNewlines(Tail(text))
         ELSE <<Head(text)>> \o UniversalNewlines(Tail(text))

\* The text seen through the wrapper of read_csv_web.
ReadText(bytes) == UniversalNewlines(Utf8Decode(bytes))

\* Iterating the wrapper yields the lines, each with its '\n'.
RECURSIVE SplitLines(_, _)
SplitLines(text, cur) ==
    IF text = <<>> THEN (IF cur = <<>> THEN <<>> ELSE <<cur>>)
    ELSE IF Head(text) = LF
         THEN <<Append(cur, LF)>> \o SplitLines(Tail(text), <<>>)
         ELSE SplitLines(Tail(text), Append(cur, Head(text)))

(***************************************************************************)
(* csv.reader: the parser of the csv module.  EOL (-1) is the end-of-line   *)
(* mark the reader feeds after the characters of each line.                 *)
(***************************************************************************)
EOL == -1

ParserStart == [state |-> "START_RECORD", field |-> <<>>, fields |-> <<>>]

SaveField(p) == [p EXCEPT !.fields = Append(p.fields, p.field), !.field = <<>>]

AddChar(p, c) == [p EXCEPT !.field = Append(p.field, c)]

AfterNewline(c) == IF c = EOL THEN "START_RECORD" ELSE "EAT_CRNL"

StartField(p, c) ==
    IF c \in {LF, CR, EOL} THEN [SaveField(p) EXCEPT !.state = AfterNewline(c)]
    ELSE IF c = DQUOTE THEN [p EXCEPT !.state = "IN_QUOTED_FIELD"]
    ELSE IF c = COMMA THEN SaveField(p)
    ELSE [AddChar(p, c) EXCEPT !.state = "IN_FIELD"]

ProcessChar(p, c) ==
    CASE p.state = "START_RECORD" ->
            IF c = EOL THEN p
            ELSE IF c \in {LF, CR} THEN [p EXCEPT !.state = "EAT_CRNL"]
            ELSE StartField([p EXCEPT !.state = "START_FIELD"], c)
      [] p.state = "START_FIELD" -> StartField(p, c)
      [] p.state = "IN_FIELD" ->
            IF c \in {LF, CR, EOL}
            THEN [SaveField(p) EXCEPT !.state = AfterNewline(c)]
            ELSE IF c = COMMA THEN [SaveField(p) EXCEPT !.state = "START_FIELD"]
            ELSE AddChar(p, c)
      [] p.state = "IN_QUOTED_FIELD" ->
            IF c = EOL THEN p
            ELSE IF c = DQUOTE THEN [p EXCEPT !.state = "QUOTE_IN_QUOTED_FIELD"]
            ELSE AddChar(p, c)
      [] p.state = "QUOTE_IN_QUOTED_FIELD" ->
            IF c = DQUOTE THEN [AddChar(p, c) EXCEPT !.state = "IN_QUOTED_FIELD"]
            ELSE IF c = COMMA THEN [SaveField(p) EXCEPT !.state = "START_FIELD"]
            ELSE IF c \in {LF, CR, EOL}
            THEN [SaveField(p) EXCEPT !.state = AfterNewline(c)]
            ELSE [AddChar(p, c) EXCEPT !.state = "IN_FIELD"]
      [] p.state = "EAT_CRNL" ->
            IF c \in {LF, CR} THEN p
            ELSE IF c = EOL THEN [p EXCEPT !.state = "START_RECORD"]
            ELSE [p EXCEPT !.state = "ERROR"]
      [] OTHER -> p

RECURSIVE ProcessLine(_, _)
ProcessLine(p, line) ==
    IF line = <<>> THEN ProcessChar(p, EOL)
    ELSE ProcessLine(ProcessChar(p, Head(line)), Tail(line))

\* list(reader): a record is complete when the parser is back at START_RECORD
\* after a line; at the end of the input a pending field closes the record.
RECURSIVE ReadRecords(_, _)
ReadRecords(lines, p) ==
    IF lines = <<>>
    THEN IF p.field # <<>> \/ p.state = "IN_QUOTED_FIELD"
         THEN <<SaveField(p).fields>> ELSE <<>>
    ELSE LET q == ProcessLine(p, Head(lines))
         IN  IF q.state = "START_RECORD"
             THEN <<q.fields>> \o ReadRecords(Tail(lines), ParserStart)
             ELSE ReadRecords(Tail(lines), q)

read_csv_web(bytes) == ReadRecords(SplitLines(ReadText(bytes), <<>>), ParserStart)

(***************************************************************************)
(* The CSV round trip: rows are written, then the bytes are read back.      *)
(***************************************************************************)
CsvFields == SeqsUpTo(CsvChars, MaxFieldLen)

CsvShapes == {s \in (0..MaxCells) \X (0..MaxCells) :
                 s[1] * s[2] <= MaxCells /\ (s[1] = 0 => s[2] = 0)}

CsvTables == UNION {[1..s[1] -> [1..s[2] -> CsvFields]] : s \in CsvShapes}

CsvIdle ==
    /\ csv_pc = "idle"
    /\ csv_rows = <<>>
    /\ csv_buffer = <<>>
    /\ csv_decoded = <<>>

PlyIdle ==
    /\ ply_pc = "idle"
    /\ ply_rows = <<>>
    /\ ply_dtype = <<>>
    /\ ply_buffer = <<>>
    /\ ply_data = <<>>

CamIdle ==
    /\ cam_pc = "idle"
    /\ cam_xyzs = <<>>
    /\ cam_zoom = 0
    /\ cam_place = <<>>

VoxIdle ==
    /\ vox_pc = "idle"
    /\ vox_midpts = <<>>
    /\ vox_colors = <<>>
    /\ vox_side = 0
    /\ vox_geometries = "none"
    /\ vox_outline = "none"

PtsIdle ==
    /\ pts_pc = "idle"
    /\ pts_positions = <<>>
    /\ pts_colors = <<>>
    /\ pts_points = "none"

\* The list objects that are the rgb_color defaults of viz_pts and
\* create_lines ([1,1,1]), made once when libthree.py is loaded.
InitialDefaults == [viz_pts |-> <<1, 1, 1>>, create_lines |-> <<1, 1, 1>>]

HostIdle ==
    /\ link_calls = 0
    /\ object_urls = <<>>
    /\ downloads = <<>>
    /\ get_pc = "idle"
    /\ item_bits = <<>>
    /\ host_read = <<>>
    /\ promise = "none"
    /\ get_result = "none"
    /\ suspended = {}

CallIdle ==
    /\ defaults = InitialDefaults
    /\ heap = <<>>
    /\ heap_start = <<>>
    /\ history = <<>>
    /\ n_calls = 0

CsvInit ==
    /\ csv_pc = "rows"
    /\ csv_rows \in CsvTables
    /\ csv_buffer = <<>>
    /\ csv_decoded = <<>>
    /\ PlyIdle /\ CamIdle /\ VoxIdle /\ PtsIdle /\ HostIdle /\ CallIdle

CsvWrite ==
    /\ csv_pc = "rows"
    /\ csv_buffer' = write_csv_web(csv_rows)
    /\ csv_pc' = "written"
    /\ UNCHANGED <<csv_rows, csv_decoded, plyVars, camVars, voxVars, ptsVars, hostVars, callVars>>

CsvRead ==
    /\ csv_pc = "written"
    /\ csv_decoded' = read_csv_web(csv_buffer)
    /\ csv_pc' = "decoded"
    /\ UNCHANGED <<csv_rows, csv_buffer, plyVars, camVars, voxVars, ptsVars, hostVars, callVars>>

CsvNext == CsvWrite \/ CsvRead

SpecCsv == CsvInit /\ [][CsvNext]_vars

\* C1: decoding the bytes write_csv_web produced yields exactly the rows that
\* were written, string for string, whatever the fields contain.
CsvRoundTrip == csv_pc = "decoded" => csv_decoded = csv_rows

\* The round trip of the rows that hold no carriage return.
HasCR(rows) ==
    \E i \in 1..Len(rows) : \E j \in 1..Len(rows[i]) :
        \E k \in 1..Len(rows[i][j]) : rows[i][j][k] = CR

CsvRoundTripNoCR ==
    (csv_pc = "decoded" /\ ~HasCR(csv_rows)) => csv_decoded = csv_rows

(***************************************************************************)
(* Numbers.  A number is held as a count of halves (3 is 1.5), so that the  *)
(* fractions the model needs are exact.  A Python float is a binary64.      *)
(***************************************************************************)
Abs(n) == IF n < 0 THEN -n ELSE n

Sign(n) == IF n < 0 THEN -1 ELSE 1

\* numpy's conversion to a signed integer type drops the fraction (C cast).
CastInt(n) == Sign(n) * 2 * (Abs(n) \div 2)

\* The spacing of the binary32 values around a (24 significant bits).
RECURSIVE F4Quantum(_, _)
F4Quantum(a, q) == IF a < (2^24) * q THEN q ELSE F4Quantum(a, 2 * q)

\* numpy's conversion to float32: the nearest binary32, ties to even.
CastF4(n) ==
    LET a  == Abs(n)
        q  == F4Quantum(a, 1)
        lo == (a \div q) * q
        r  == a - lo
        up == IF 2 * r > q THEN TRUE
              ELSE IF 2 * r < q THEN FALSE
              ELSE ((lo \div q) % 2) = 1
    IN  Sign(n) * (IF up THEN lo + q ELSE lo)

\* np.array(vertex_data, dtype=dtype_val): each value is converted to the
\* type declared for its field.
Cast(type, n) ==
    CASE type = "i4" -> CastInt(n)
      [] type = "f4" -> CastF4(n)
      [] OTHER -> n

(***************************************************************************)
(* The text of a number, as np.savetxt writes it with '%.18g', and the      *)
(* number of a text, as the reader of the file parses it.                   *)
(***************************************************************************)
MINUS == 45
DOT == 46
DIGIT0 == 48

RECURSIVE Digits(_)
Digits(k) ==
    IF k < 10 THEN <<DIGIT0 + k>>
    ELSE Append(Digits(k \div 10), DIGIT0 + (k % 10))

FormatNumber(n) ==
    (IF n < 0 THEN <<MINUS>> ELSE <<>>)
        \o Digits(Abs(n) \div 2)
        \o (IF Abs(n) % 2 = 1 THEN <<DOT, DIGIT0 + 5>> ELSE <<>>)

RECURSIVE ParseDigits(_, _)
ParseDigits(text, acc) ==
    IF text = <<>> \/ Head(text) = DOT THEN acc
    ELSE ParseDigits(Tail(text), 10 * acc + (Head(text) - DIGIT0))

RECURSIVE HasDot(_)
HasDot(text) == text # <<>> /\ (Head(text) = DOT \/ HasDot(Tail(text)))

\* The tokens the model writes have at most the one fraction digit 5.
ParseNumber(text) ==
    LET neg  == text # <<>> /\ Head(text) = MINUS
        body == IF neg THEN Tail(text) ELSE text
        mag  == 2 * ParseDigits(body, 0) + (IF HasDot(body) THEN 1 ELSE 0)
    IN  IF neg THEN -mag ELSE mag

(***************************************************************************)
(* plyfile: PlyElement.describe names each property by the PLY name of its  *)
(* numpy type; PlyData(..., text=True).write writes the header and one line *)
(* of numbers per record; PlyData.read reads them back by the header.       *)
(***************************************************************************)
PlyTypes == {"i4", "f4", "f8"}

PlyTypeName(type) ==
    CASE type = "i4" -> "int"
      [] type = "f4" -> "float"
      [] OTHER -> "double"

NumpyType(name) ==
    CASE name = "int" -> "i4"
      [] name = "float" -> "f4"
      [] OTHER -> "f8"

\* The structured array of line 113: row i, field j.
PlyVertexData(vertex_data, dtype_val) ==
    [i \in 1..Len(vertex_data) |->
        [j \in 1..Len(dtype_val) |-> Cast(dtype_val[j][2], vertex_data[i][j])]]

PlyHeader(arr, dtype_val) ==
    [format   |-> "ascii",
     element  |-> "vertex",
     count    |-> Len(arr),
     property |-> [j \in 1..Len(dtype_val) |->
                      <<PlyTypeName(dtype_val[j][2]), dtype_val[j][1]>>]]

PlyLine(rec) == [j \in 1..Len(rec) |-> FormatNumber(rec[j])]

write_ply_web(vertex_data, dtype_val) ==
    LET arr == PlyVertexData(vertex_data, dtype_val)
    IN  [header |-> PlyHeader(arr, dtype_val),
         body   |-> [i \in 1..Len(arr) |-> PlyLine(arr[i])]]

\* PlyData.read: each token of a line is converted by the type of its property.
PlyReadRecord(header, line) ==
    [j \in 1..Len(header.property) |->
        Cast(NumpyType(header.property[j][1]), ParseNumber(line[j]))]

\* read_ply_web giving the array transposed, one row per property.
read_ply_web_transposed(ply) ==
    LET data == [i \in 1..ply.header.count |->
                    PlyReadRecord(ply.header, ply.body[i])]
    IN  [shape |-> IF data = <<>> THEN <<0>>
                   ELSE <<Len(data[1]), Len(data)>>,
         rows  |-> IF data = <<>> THEN <<>>
                   ELSE [j \in 1..Len(data[1]) |-> [i \in 1..Len(data) |-> data[i][j]]]]

\* read_ply_web: np.array(list(map(list, data))) is two-dimensional unless the
\* list is empty, and then it is an array of shape (0,).
read_ply_web(ply) ==
    LET data == [i \in 1..ply.header.count |->
                    PlyReadRecord(ply.header, ply.body[i])]
    IN  [shape |-> IF data = <<>> THEN <<0>>
                   ELSE <<Len(data), Len(data[1])>>,
         rows  |-> data]

(***************************************************************************)
(* The PLY round trip.                                                      *)
(***************************************************************************)
\* 0, 1, 1.5, -1.5 and 16777217 (2^24 + 1, which no binary32 holds).
PlyValues == {0, 2, 3, -3, 2 * (2^24 + 1)}

PlyFieldNames == <<"x", "y", "z", "temperature", "a", "b", "c", "d">>

PlyShapes == {s \in (0..MaxPlyCells) \X (1..MaxPlyCells) : s[1] * s[2] <= MaxPlyCells}

PlyDtypes(k) ==
    {[j \in 1..k |-> <<PlyFieldNames[j], t[j]>>] : t \in [1..k -> PlyTypes]}

PlyInit ==
    /\ ply_pc = "rows"
    /\ \E s \in PlyShapes :
          /\ ply_rows \in [1..s[1] -> [1..s[2] -> PlyValues]]
          /\ ply_dtype \in PlyDtypes(s[2])
    /\ ply_buffer = <<>>
    /\ ply_data = <<>>
    /\ CsvIdle /\ CamIdle /\ VoxIdle /\ PtsIdle /\ HostIdle /\ CallIdle

PlyWrite ==
    /\ ply_pc = "rows"
    /\ ply_buffer' = write_ply_web(ply_rows, ply_dtype)
    /\ ply_pc' = "written"
    /\ UNCHANGED <<ply_rows, ply_dtype, ply_data, csvVars, camVars, voxVars, ptsVars, hostVars, callVars>>

PlyRead ==
    /\ ply_pc = "written"
    /\ ply_data' = read_ply_web(ply_buffer)
    /\ ply_pc' = "decoded"
    /\ UNCHANGED <<ply_rows, ply_dtype, ply_buffer, csvVars, camVars, voxVars, ptsVars, hostVars, callVars>>

PlyNext == PlyWrite \/ PlyRead

SpecPly == PlyInit /\ [][PlyNext]_vars

PlyRepresentable ==
    \A i \in 1..Len(ply_rows) : \A j \in 1..Len(ply_dtype) :
        Cast(ply_dtype[j][2], ply_rows[i][j]) = ply_rows[i][j]

Min2(a, b) == IF a < b THEN a ELSE b

Max2(a, b) == IF a > b THEN a ELSE b

RECURSIVE bbox_frm_xyzs(_)
bbox_frm_xyzs(xyzs) ==
    LET p == Head(xyzs)
    IN  IF Len(xyzs) = 1 THEN <<p[1], p[2], p[3], p[1], p[2], p[3]>>
        ELSE LET b == bbox_frm_xyzs(Tail(xyzs))
             IN  <<Min2(p[1], b[1]), Min2(p[2], b[2]), Min2(p[3], b[3]),
                   Max2(p[1], b[4]), Max2(p[2], b[5]), Max2(p[3], b[6])>>

bboxes_centre(bbox_arr) ==
    [k \in 1..3 |-> bbox_arr[k] + ((bbox_arr[k + 3] - bbox_arr[k]) \div 2)]

CamPosMin(bbox_arr, zoom_out_val) ==
    <<bbox_arr[1] + zoom_out_val, bbox_arr[2] + zoom_out_val,
      bbox_arr[3] + zoom_out_val>>

\* Line 235.
CamPos(bbox_arr, zoom_out_val) ==
    <<bbox_arr[4] + zoom_out_val, bbox_arr[5] + zoom_out_val,
      bbox_arr[6] + zoom_out_val>>

get_cam_place_from_xyzs(xyzs, zoom_out_val) ==
    LET bbox_arr   == bbox_frm_xyzs(xyzs)
        cam_pos    == CamPos(bbox_arr, zoom_out_val)
        bbox_midpt == bboxes_centre(bbox_arr)
    IN  <<cam_pos, bbox_midpt>>

\* Whole coordinates (an even count of halves), so that the centre is exact.
CamCoords == {-2, 0, 4}

CamPoints == CamCoords \X CamCoords \X CamCoords

CamZooms == {0, 1, 6}

CamCall ==
    /\ cam_pc = "idle"
    /\ \E n \in 1..MaxCamPts : \E xyzs \in [1..n -> CamPoints] :
       \E zoom_out_val \in CamZooms :
          /\ cam_xyzs' = xyzs
          /\ cam_zoom' = zoom_out_val
          /\ cam_place' = get_cam_place_from_xyzs(xyzs, zoom_out_val)
    /\ cam_pc' = "returned"
    /\ UNCHANGED <<csvVars, plyVars, voxVars, ptsVars, hostVars, callVars>>

CamReset ==
    /\ cam_pc = "returned"
    /\ cam_pc' = "idle"
    /\ cam_xyzs' = <<>>
    /\ cam_zoom' = 0
    /\ cam_place' = <<>>
    /\ UNCHANGED <<csvVars, plyVars, voxVars, ptsVars, hostVars, callVars>>

CamInit == CsvIdle /\ PlyIdle /\ CamIdle /\ VoxIdle /\ PtsIdle /\ HostIdle /\ CallIdle

CamNext == CamCall \/ CamReset

SpecCam == CamInit /\ [][CamNext]_vars

\* m is the greatest (sense = 1) or the least (sense = -1) k-th coordinate.
IsExtreme(m, k, sense) ==
    /\ \E i \in 1..Len(cam_xyzs) : cam_xyzs[i][k] = m
    /\ \A i \in 1..Len(cam_xyzs) : sense * cam_xyzs[i][k] <= sense * m

\* C4: the camera position is the greatest x, y and z of the points, each plus
\* the offset; the look-at point is the centre of the bounding box; for one
\* repeated point p and offset 0 both are p.
CamPlacement ==
    cam_pc = "returned" =>
        /\ Len(cam_place) = 2
        /\ \A k \in 1..3 :
              /\ IsExtreme(cam_place[1][k] - cam_zoom, k, 1)
              /\ \E lo \in CamCoords :
                    /\ IsExtreme(lo, k, -1)
                    /\ 2 * cam_place[2][k] = lo + (cam_place[1][k] - cam_zoom)
        /\ ((\A i \in 1..Len(cam_xyzs) : cam_xyzs[i] = cam_xyzs[1]) /\ cam_zoom = 0)
              => (cam_place[1] = cam_xyzs[1] /\ cam_place[2] = cam_xyzs[1])

\* Two different points with an offset: the box has a size and a centre that
\* is neither point.
CamPlacementWitness ==
    /\ cam_pc = "returned"
    /\ Len(cam_xyzs) = 2
    /\ cam_xyzs[1] = <<-2, 4, 0>>
    /\ cam_xyzs[2] = <<4, -2, 0>>
    /\ cam_zoom = 1
    /\ cam_place = <<(<<5, 5, 1>>), (<<1, 1, 0>>)>>

(***************************************************************************)
(* three.js, as libthree.py uses it.  A typed array is the sequence of its  *)
(* elements, a geometry the record of its attributes.                       *)
(***************************************************************************)
\* window.Float32Array.new(list): each element becomes a binary32.
Float32Array(list) == [i \in 1..Len(list) |-> CastF4(list[i])]

\* THREE.BufferAttribute.new(array, itemSize).
BufferAttribute(array, itemSize) ==
    [array |-> array, itemSize |-> itemSize, count |-> Len(array) \div itemSize]

\* THREE.BoxGeometry.new(w, h, d): a box centred on the origin, held by its
\* two opposite corners.
BoxGeometry(w, h, d) ==
    [lo |-> <<-(w \div 2), -(h \div 2), -(d \div 2)>>,
     hi |-> <<w \div 2, h \div 2, d \div 2>>]

\* cube.applyMatrix4(THREE.Matrix4.new().makeTranslation(x, y, z)).
ApplyTranslation(box, x, y, z) ==
    [lo |-> <<box.lo[1] + x, box.lo[2] + y, box.lo[3] + z>>,
     hi |-> <<box.hi[1] + x, box.hi[2] + y, box.hi[3] + z>>]

\* The twelve edges of a box, each by the corners it joins (0: lo, 1: hi).
\* The order in which three.js lists them is fixed for a box geometry; the
\* model takes the edges along x, then along y, then along z.
BoxEdges ==
    << <<(<<0,0,0>>), (<<1,0,0>>)>>, <<(<<0,1,0>>), (<<1,1,0>>)>>,
       <<(<<0,0,1>>), (<<1,0,1>>)>>, <<(<<0,1,1>>), (<<1,1,1>>)>>,
       <<(<<0,0,0>>), (<<0,1,0>>)>>, <<(<<1,0,0>>), (<<1,1,0>>)>>,
       <<(<<0,0,1>>), (<<0,1,1>>)>>, <<(<<1,0,1>>), (<<1,1,1>>)>>,
       <<(<<0,0,0>>), (<<0,0,1>>)>>, <<(<<1,0,0>>), (<<1,0,1>>)>>,
       <<(<<0,1,0>>), (<<0,1,1>>)>>, <<(<<1,1,0>>), (<<1,1,1>>)>> >>

BoxCorner(box, c) ==
    [k \in 1..3 |-> IF c[k] = 0 THEN box.lo[k] ELSE box.hi[k]]

\* THREE.EdgesGeometry.new(cube): a position attribute of two vertices per
\* edge, flat.
EdgesGeometry(box) ==
    [position |->
        BufferAttribute(
            Flatten([e \in 1..Len(BoxEdges) |->
                        BoxCorner(box, BoxEdges[e][1]) \o BoxCorner(box, BoxEdges[e][2])]),
            3)]

\* edge_geom.setAttribute(name, attribute).
SetAttribute(geom, name, attribute) ==
    [n \in (DOMAIN geom) \cup {name} |-> IF n = name THEN attribute ELSE geom[n]]

\* BufferGeometryUtils.mergeGeometries(geometries, useGroups): it reads
\* geometries[0].index first, which is a TypeError on an empty list; else it
\* joins each attribute of the geometries in the order of the list and, with
\* useGroups, adds one group per geometry.
RECURSIVE GroupsOf(_, _, _)
GroupsOf(geometries, i, offset) ==
    IF i > Len(geometries) THEN <<>>
    ELSE <<[start |-> offset, count |-> geometries[i].position.count,
            materialIndex |-> i - 1]>>
            \o GroupsOf(geometries, i + 1, offset + geometries[i].position.count)

MergeAttribute(geometries, name) ==
    BufferAttribute(
        Flatten([i \in 1..Len(geometries) |-> geometries[i][name].array]),
        geometries[1][name].itemSize)

mergeGeometries(geometries, useGroups) ==
    IF geometries = <<>> THEN [status |-> "TypeError"]
    ELSE [status   |-> "ok",
          geometry |-> [position |-> MergeAttribute(geometries, "position"),
                        color    |-> MergeAttribute(geometries, "color"),
                        groups   |-> IF useGroups THEN GroupsOf(geometries, 1, 0)
                                     ELSE <<>>]]

\* THREE.LineSegments.new(geometry, THREE.LineBasicMaterial.new(vertexColors = True)).
LineSegments(geometry) ==
    [type |-> "LineSegments", geometry |-> geometry,
     material |-> [type |-> "LineBasicMaterial", vertexColors |-> TRUE]]

(***************************************************************************)
(* viz_vox_outlines.                                                        *)
(***************************************************************************)
\* Lines 338-345: the edge geometry of one voxel.
VoxEdgeGeom(midpt, color, vox_dim) ==
    LET cube  == BoxGeometry(vox_dim, vox_dim, vox_dim)
        m     == Float32Array(midpt)
        moved == ApplyTranslation(cube, m[1], m[2], m[3])
    IN  SetAttribute(EdgesGeometry(moved), "color",
                     BufferAttribute(Float32Array(color), 3))

VoxPrepend(geometries, edge_geom) == <<edge_geom>> \o geometries

\* Line 347.
VoxAppend(geometries, edge_geom) == Append(geometries, edge_geom)

\* Lines 336-347: the loop; colors[cnt] beyond the end of colors is an
\* IndexError.
RECURSIVE VoxLoop(_, _, _, _, _)
VoxLoop(midpts, colors, vox_dim, cnt, geometries) ==
    IF cnt > Len(midpts) THEN [status |-> "ok", geometries |-> geometries]
    ELSE IF cnt > Len(colors) THEN [status |-> "IndexError"]
    ELSE VoxLoop(midpts, colors, vox_dim, cnt + 1,
                 VoxAppend(geometries,
                           VoxEdgeGeom(midpts[cnt], colors[cnt], vox_dim)))

\* The call: what was handed to the merge step ("none" when the loop raised)
\* and the drawable returned ("none" when the call raised).
viz_vox_outlines(midpts, colors, vox_dim) ==
    LET loop == VoxLoop(midpts, colors, vox_dim, 1, <<>>)
    IN  IF loop.status # "ok"
        THEN [status |-> loop.status, geometries |-> "none", outline |-> "none"]
        ELSE LET merged_edges == mergeGeometries(loop.geometries, TRUE)
             IN  IF merged_edges.status # "ok"
                 THEN [status |-> merged_edges.status,
                       geometries |-> loop.geometries, outline |-> "none"]
                 ELSE [status |-> "ok", geometries |-> loop.geometries,
                       outline |-> LineSegments(merged_edges.geometry)]

VoxCentres == {<<0, 0, 0>>, <<4, 0, 0>>, <<0, 2, 6>>}

VoxDims == {2, 4}

\* One colour for each of the 12 * 2 vertices of a voxel's edges, flat.
VoxColorList(rgb) == [i \in 1..(12 * 2 * 3) |-> rgb[((i - 1) % 3) + 1]]

VoxColorLists == {VoxColorList(<<2, 0, 0>>), VoxColorList(<<0, 2, 0>>)}

VizVoxOutlines ==
    /\ vox_pc = "idle"
    /\ \E midpts \in SeqsUpTo(VoxCentres, MaxVox) :
       \E colors \in SeqsUpTo(VoxColorLists, MaxVox) :
       \E d \in VoxDims :
          LET r == viz_vox_outlines(midpts, colors, d)
          IN  /\ vox_midpts' = midpts
              /\ vox_colors' = colors
              /\ vox_side' = d
              /\ vox_geometries' = r.geometries
              /\ vox_outline' = r.outline
              /\ vox_pc' = IF r.status = "ok" THEN "returned" ELSE "raised"
    /\ UNCHANGED <<csvVars, plyVars, camVars, ptsVars, hostVars, callVars>>

VoxReset ==
    /\ vox_pc # "idle"
    /\ vox_pc' = "idle"
    /\ vox_midpts' = <<>>
    /\ vox_colors' = <<>>
    /\ vox_side' = 0
    /\ vox_geometries' = "none"
    /\ vox_outline' = "none"
    /\ UNCHANGED <<csvVars, plyVars, camVars, ptsVars, hostVars, callVars>>

VoxInit == CsvIdle /\ PlyIdle /\ CamIdle /\ VoxIdle /\ PtsIdle /\ HostIdle /\ CallIdle

VoxNext == VizVoxOutlines \/ VoxReset

SpecVox == VoxInit /\ [][VoxNext]_vars

\* The flat array is the 12 edges of the cube of side dim centred on midpt:
\* 24 vertices, each coordinate half a side from the centre, the two ends of an
\* edge differing in one coordinate, and no edge twice.
Vertex(array, v) == <<array[3 * v - 2], array[3 * v - 1], array[3 * v]>>

IsCubeEdges(array, midpt, dim) ==
    /\ Len(array) = 12 * 2 * 3
    /\ \A v \in 1..24 : \A k \in 1..3 :
          Vertex(array, v)[k] \in {midpt[k] - (dim \div 2), midpt[k] + (dim \div 2)}
    /\ \A e \in 1..12 :
          Cardinality({k \in 1..3 :
              Vertex(array, 2 * e - 1)[k] # Vertex(array, 2 * e)[k]}) = 1
    /\ \A e, f \in 1..12 :
          e # f => {Vertex(array, 2 * e - 1), Vertex(array, 2 * e)}
                       # {Vertex(array, 2 * f - 1), Vertex(array, 2 * f)}

\* C5: for n voxel centres, each with its colours, the list handed to the merge
\* step has n edge geometries, the i-th the edges of a vox_dim cube at
\* midpts[i] with colors[i] as its colour attribute; the merged outline's
\* vertices and colours are those of the list, joined in input order.
VoxInputOrder ==
    (vox_pc # "idle" /\ Len(vox_colors) >= Len(vox_midpts)) =>
        /\ vox_geometries # "none"
        /\ Len(vox_geometries) = Len(vox_midpts)
        /\ \A i \in 1..Len(vox_midpts) :
              /\ IsCubeEdges(vox_geometries[i].position.array, vox_midpts[i], vox_side)
              /\ vox_geometries[i].color.array = vox_colors[i]
        /\ vox_pc = "returned" =>
              /\ vox_outline.geometry.position.array =
                    Flatten([i \in 1..Len(vox_midpts) |->
                                vox_geometries[i].position.array])
              /\ vox_outline.geometry.color.array =
                    Flatten([i \in 1..Len(vox_midpts) |-> vox_colors[i]])

\* Two voxels at different centres with different colours, merged.
VoxInputOrderWitness ==
    /\ vox_pc = "returned"
    /\ Len(vox_midpts) = 2
    /\ vox_midpts[1] = <<4, 0, 0>>
    /\ vox_midpts[2] = <<0, 0, 0>>
    /\ vox_colors[1] # vox_colors[2]
    /\ Len(vox_outline.geometry.position.array) = 2 * 12 * 2 * 3
    /\ vox_outline.geometry.position.array[1] = 3

\* C6: a call with no voxel centre completes and returns an empty drawable.
VoxEmptyReturnsEmpty ==
    (vox_pc # "idle" /\ vox_midpts = <<>>) =>
        /\ vox_pc = "returned"
        /\ vox_outline # "none"
        /\ vox_outline.geometry.position.array = <<>>

(***************************************************************************)
(* viz_pts_color.                                                           *)
(***************************************************************************)
viz_pts_color(positions, colors, size) ==
    [type     |-> "Points",
     geometry |-> [position |-> BufferAttribute(Float32Array(positions), 3),
                   color    |-> BufferAttribute(Float32Array(colors), 3)],
     material |-> [type |-> "PointsMaterial", size |-> size,
                   sizeAttenuation |-> TRUE, vertexColors |-> TRUE]]

PtsTriples == {<<0, 0, 0>>, <<2, 0, 0>>, <<0, 2, 1>>}

PtsFlatLists == {Flatten(ps) : ps \in SeqsUpTo(PtsTriples, MaxPts)}

\* The sizes are in hundredths: the default 0.03, and 1.
PtsSizes == {3, 100}

VizPtsColor ==
    /\ pts_pc = "idle"
    /\ \E positions \in PtsFlatLists : \E colors \in PtsFlatLists :
       \E size \in PtsSizes :
          /\ pts_positions' = positions
          /\ pts_colors' = colors
          /\ pts_points' = viz_pts_color(positions, colors, size)
    /\ pts_pc' = "returned"
    /\ UNCHANGED <<csvVars, plyVars, camVars, voxVars, hostVars, callVars>>

PtsReset ==
    /\ pts_pc # "idle"
    /\ pts_pc' = "idle"
    /\ pts_positions' = <<>>
    /\ pts_colors' = <<>>
    /\ pts_points' = "none"
    /\ UNCHANGED <<csvVars, plyVars, camVars, voxVars, hostVars, callVars>>

PtsInit == CsvIdle /\ PlyIdle /\ CamIdle /\ VoxIdle /\ PtsIdle /\ HostIdle /\ CallIdle

PtsNext == VizPtsColor \/ PtsReset

SpecPts == PtsInit /\ [][PtsNext]_vars

\* C7: a colour buffer whose point count differs from that of the position
\* buffer never gives a drawable: the call ends in an error; with equal counts
\* position i and colour i are at the same index of their attributes.
PtsMismatchIsError ==
    pts_pc # "idle" =>
        IF Len(pts_colors) # Len(pts_positions) THEN pts_pc = "raised"
        ELSE /\ pts_points.geometry.position.array = pts_positions
             /\ pts_points.geometry.color.array = pts_colors

\* The second half of C7 alone: with equal point counts the pairing is kept.
PtsPairing ==
    (pts_pc = "returned" /\ Len(pts_colors) = Len(pts_positions)) =>
        /\ pts_points.geometry.position.count = pts_points.geometry.color.count
        /\ \A i \in 1..pts_points.geometry.position.count :
              /\ Vertex(pts_points.geometry.position.array, i) = Vertex(pts_positions, i)
              /\ Vertex(pts_points.geometry.color.array, i) = Vertex(pts_colors, i)

(***************************************************************************)
(* The host: the browser's object URLs and downloads, and the event loop    *)
(* that runs one callback at a time.                                        *)
(***************************************************************************)
\* Uint8Array.new(nbuffer) then js_array.assign(buffer): a copy of the bytes.
Uint8ArrayOf(buffer) == [i \in 1..Len(buffer) |-> buffer[i] % 256]

\* create_hidden_link with the URL it made revoked after the click.
create_hidden_link_revoking(bstream, file_name, file_type, urls, dls) ==
    LET file == [bits |-> Uint8ArrayOf(bstream), name |-> file_name]
        url  == [id |-> Len(urls) + 1, file |-> file]
    IN  [object_urls |-> urls,
         downloads   |-> Append(dls, [download |-> <<file_name, file_type>>,
                                      href |-> url.id, bits |-> file.bits])]

\* create_hidden_link: File.new, URL.createObjectURL, an anchor with its
\* download and href attributes, and one click.  The options of File.new are
\* keyed by the builtin type, not by the string 'type'; nothing revokes the URL.
create_hidden_link(bstream, file_name, file_type, urls, dls) ==
    LET file == [bits |-> Uint8ArrayOf(bstream), name |-> file_name]
        url  == [id |-> Len(urls) + 1, file |-> file]
    IN  [object_urls |-> Append(urls, url),
         downloads   |-> Append(dls, [download |-> <<file_name, file_type>>,
                                      href |-> url.id, bits |-> file.bits])]

LinkBuffers == {<<>>, <<112, 108, 121>>}

LinkNames == {"mesh", "grid"}

LinkTypes == {"ply", "csv"}

CreateHiddenLink ==
    /\ link_calls < MaxLinkCalls
    /\ \E bstream \in LinkBuffers : \E file_name \in LinkNames :
       \E file_type \in LinkTypes :
          LET r == create_hidden_link(bstream, file_name, file_type,
                                      object_urls, downloads)
          IN  /\ object_urls' = r.object_urls
              /\ downloads' = r.downloads
    /\ link_calls' = link_calls + 1
    /\ UNCHANGED <<get_pc, item_bits, host_read, promise, get_result, suspended>>
    /\ UNCHANGED <<csvVars, plyVars, camVars, voxVars, ptsVars, callVars>>

(***************************************************************************)
(* get_bytes_from_file: the coroutine calls item.arrayBuffer(), which       *)
(* starts the host's read and gives a pending promise; it is suspended at   *)
(* the await until the host settles the promise, and then returns           *)
(* array_buf.to_bytes().                                                    *)
(***************************************************************************)
FileContents == {<<>>, <<7>>, <<7, 200, 9>>}

GetBytesCall ==
    /\ get_pc = "idle"
    /\ \E bits \in FileContents : item_bits' = bits
    /\ host_read' = <<>>
    /\ promise' = "pending"
    /\ get_result' = "none"
    /\ get_pc' = "awaiting"
    /\ suspended' = suspended \cup {"get_bytes_from_file"}
    /\ UNCHANGED <<link_calls, object_urls, downloads>>
    /\ UNCHANGED <<csvVars, plyVars, camVars, voxVars, ptsVars, callVars>>

\* The host reads the file a piece at a time.
HostRead ==
    /\ promise = "pending"
    /\ Len(host_read) < Len(item_bits)
    /\ host_read' = Append(host_read, item_bits[Len(host_read) + 1])
    /\ UNCHANGED <<link_calls, object_urls, downloads,
                   get_pc, item_bits, promise, get_result, suspended>>
    /\ UNCHANGED <<csvVars, plyVars, camVars, voxVars, ptsVars, callVars>>

\* Blob.arrayBuffer() resolves once the whole file is read.
HostResolve ==
    /\ promise = "pending"
    /\ host_read = item_bits
    /\ promise' = "resolved"
    /\ UNCHANGED <<link_calls, object_urls, downloads,
                   get_pc, item_bits, host_read, get_result, suspended>>
    /\ UNCHANGED <<csvVars, plyVars, camVars, voxVars, ptsVars, callVars>>

\* The read may fail, and the promise is then rejected.
HostReject ==
    /\ promise = "pending"
    /\ promise' = "rejected"
    /\ UNCHANGED <<link_calls, object_urls, downloads,
                   get_pc, item_bits, host_read, get_result, suspended>>
    /\ UNCHANGED <<csvVars, plyVars, camVars, voxVars, ptsVars, callVars>>

\* array_buf.to_bytes(): the bytes of the buffer.
ToBytes(array_buf) == [i \in 1..Len(array_buf) |-> array_buf[i]]

\* The coroutine without its await: it goes on with what the host has so far.
GetBytesResumeNoAwait ==
    /\ get_pc = "awaiting"
    /\ get_result' = ToBytes(host_read)
    /\ get_pc' = "returned"
    /\ suspended' = suspended \ {"get_bytes_from_file"}
    /\ UNCHANGED <<link_calls, object_urls, downloads, item_bits, host_read, promise>>
    /\ UNCHANGED <<csvVars, plyVars, camVars, voxVars, ptsVars, callVars>>

\* Lines 189-190: the await ends when the promise is settled.
GetBytesResume ==
    /\ get_pc = "awaiting"
    /\ promise \in {"resolved", "rejected"}
    /\ IF promise = "resolved"
       THEN get_result' = ToBytes(host_read) /\ get_pc' = "returned"
       ELSE get_result' = "none" /\ get_pc' = "raised"
    /\ suspended' = suspended \ {"get_bytes_from_file"}
    /\ UNCHANGED <<link_calls, object_urls, downloads, item_bits, host_read, promise>>
    /\ UNCHANGED <<csvVars, plyVars, camVars, voxVars, ptsVars, callVars>>

\* The caller is done with the result; the file may be read again.
GetBytesDone ==
    /\ get_pc \in {"returned", "raised"}
    /\ get_pc' = "idle"
    /\ item_bits' = <<>>
    /\ host_read' = <<>>
    /\ promise' = "none"
    /\ get_result' = "none"
    /\ UNCHANGED <<link_calls, object_urls, downloads, suspended>>
    /\ UNCHANGED <<csvVars, plyVars, camVars, voxVars, ptsVars, callVars>>

HostInit == CsvIdle /\ PlyIdle /\ CamIdle /\ VoxIdle /\ PtsIdle /\ HostIdle /\ CallIdle

HostNext ==
    \/ CreateHiddenLink
    \/ GetBytesCall
    \/ HostRead
    \/ HostResolve
    \/ HostReject
    \/ GetBytesResume
    \/ GetBytesDone

SpecHost == HostInit /\ [][HostNext]_vars

\* C8: get_bytes_from_file is the only operation found suspended; it is
\* suspended exactly while it awaits; it has returned only once the host has
\* resolved the promise, and what it returned is the whole content of the file.
OnlyGetBytesSuspends ==
    /\ suspended \subseteq {"get_bytes_from_file"}
    /\ ("get_bytes_from_file" \in suspended) <=> (get_pc = "awaiting")
    /\ get_pc = "returned" => (promise = "resolved" /\ get_result = item_bits)
    /\ get_pc = "raised" => promise = "rejected"

\* A file of three bytes returned whole, a download having run meanwhile.
OnlyGetBytesSuspendsWitness ==
    /\ get_pc = "returned"
    /\ get_result = <<7, 200, 9>>
    /\ link_calls >= 1

\* C9: after n calls of create_hidden_link there have been n downloads, one
\* per call, and the n object URLs made are all still live.
OneDownloadPerCall ==
    /\ Len(downloads) = link_calls
    /\ Len(object_urls) = link_calls
    /\ \A i \in 1..link_calls :
          /\ object_urls[i].id = i
          /\ downloads[i].href = object_urls[i].id
          /\ downloads[i].bits = object_urls[i].file.bits

OneDownloadPerCallWitness ==
    /\ link_calls = 2
    /\ Len(object_urls) = 2
    /\ downloads[1].download = <<"mesh", "ply">>
    /\ downloads[2].download = <<"grid", "csv">>
    /\ downloads[2].bits = <<112, 108, 121>>

(***************************************************************************)
(* Sequences of calls.  The caller holds its argument lists in heap; the    *)
(* rgb_color defaults are objects of the module.  A builder is given the    *)
(* objects and gives back its result and the objects as the call left them. *)
(***************************************************************************)
\* THREE.Color.new(r, g, b).
Color(r, g, b) == <<r, g, b>>

\* viz_pts writing into the list it was given as rgb_color.
viz_pts_writing(positions, size, rgb_color) ==
    [result |->
        [type     |-> "Points",
         geometry |-> [position |-> BufferAttribute(Float32Array(positions), 3)],
         material |-> [type |-> "PointsMaterial",
                       color |-> Color(rgb_color[1], rgb_color[2], rgb_color[3]),
                       size |-> size, sizeAttenuation |-> TRUE]],
     positions |-> positions,
     rgb_color |-> [rgb_color EXCEPT ![1] = 0]]

\* viz_pts: it reads rgb_color[0..2] and positions, and writes to neither.
viz_pts(positions, size, rgb_color) ==
    [result |->
        [type     |-> "Points",
         geometry |-> [position |-> BufferAttribute(Float32Array(positions), 3)],
         material |-> [type |-> "PointsMaterial",
                       color |-> Color(rgb_color[1], rgb_color[2], rgb_color[3]),
                       size |-> size, sizeAttenuation |-> TRUE]],
     positions |-> positions,
     rgb_color |-> rgb_color]

\* create_lines: positions = window.Float32Array.new(positions) binds the
\* local name anew; the caller's list is as it was.
create_lines(positions, rgb_color) ==
    [result |->
        [type     |-> "LineSegments",
         geometry |-> [position |-> BufferAttribute(Float32Array(positions), 3)],
         material |-> [type |-> "LineBasicMaterial",
                       color |-> Color(rgb_color[1], rgb_color[2], rgb_color[3])]],
     positions |-> positions,
     rgb_color |-> rgb_color]

HeapPositions == {<<>>, <<0, 0, 0>>, <<0, 0, 0, 2, 0, 1>>}

HeapColors == {<<2, 0, 0>>, <<2, 0, 0, 0, 2, 0>>}

HeapRgbs == {<<1, 0, 0>>, <<0, 1, 1>>}

HeapMidpts == {<<>>, <<(<<0, 0, 0>>)>>, <<(<<4, 0, 0>>), (<<0, 2, 6>>)>>}

HeapRows == {<<(<<(<<97>>), (<<>>)>>)>>, <<(<<(<<DQUOTE, COMMA>>)>>), (<<(<<LF>>)>>)>>}

HeapBytes == {<<97, COMMA, 97, LF>>, <<DQUOTE, CR, DQUOTE, CR, LF>>}

CallInit ==
    /\ heap \in [positions : HeapPositions, colors : HeapColors, rgb : HeapRgbs,
                 midpts : HeapMidpts, rows : HeapRows, grid_bytes : HeapBytes]
    /\ heap_start = heap
    /\ defaults = InitialDefaults
    /\ history = <<>>
    /\ n_calls = 0
    /\ CsvIdle /\ PlyIdle /\ CamIdle /\ VoxIdle /\ PtsIdle /\ HostIdle

Record(op, args, result) ==
    /\ history' = Append(history, [op |-> op, args |-> args, result |-> result])
    /\ n_calls' = n_calls + 1
    /\ UNCHANGED heap_start
    /\ UNCHANGED <<csvVars, plyVars, camVars, voxVars, ptsVars, hostVars>>

\* One colour list per voxel centre of the heap.
HeapVoxColors == [i \in 1..Len(heap.midpts) |-> VoxColorList(<<2, 0, 0>>)]

CallVizPts ==
    /\ n_calls < MaxCalls
    /\ \E by_default \in BOOLEAN :
          LET rgb == IF by_default THEN defaults.viz_pts ELSE heap.rgb
              r   == viz_pts(heap.positions, 3, rgb)
          IN  /\ heap' = [heap EXCEPT !.positions = r.positions,
                                      !.rgb = IF by_default THEN @ ELSE r.rgb_color]
              /\ defaults' = [defaults EXCEPT
                                !.viz_pts = IF by_default THEN r.rgb_color ELSE @]
              /\ Record("viz_pts",
                        <<heap.positions, 3,
                          IF by_default THEN "default" ELSE heap.rgb>>,
                        r.result)

CallCreateLines ==
    /\ n_calls < MaxCalls
    /\ \E by_default \in BOOLEAN :
          LET rgb == IF by_default THEN defaults.create_lines ELSE heap.rgb
              r   == create_lines(heap.positions, rgb)
          IN  /\ heap' = [heap EXCEPT !.positions = r.positions,
                                      !.rgb = IF by_default THEN @ ELSE r.rgb_color]
              /\ defaults' = [defaults EXCEPT
                                !.create_lines = IF by_default THEN r.rgb_color ELSE @]
              /\ Record("create_lines",
                        <<heap.positions,
                          IF by_default THEN "default" ELSE heap.rgb>>,
                        r.result)

CallVizPtsColor ==
    /\ n_calls < MaxCalls
    /\ Record("viz_pts_color", <<heap.positions, heap.colors, 3>>,
              viz_pts_color(heap.positions, heap.colors, 3))
    /\ UNCHANGED <<heap, defaults>>

CallVizVoxOutlines ==
    /\ n_calls < MaxCalls
    /\ \E d \in VoxDims :
          Record("viz_vox_outlines", <<heap.midpts, HeapVoxColors, d>>,
                 viz_vox_outlines(heap.midpts, HeapVoxColors, d))
    /\ UNCHANGED <<heap, defaults>>

CallWriteCsv ==
    /\ n_calls < MaxCalls
    /\ Record("write_csv_web", <<heap.rows>>, write_csv_web(heap.rows))
    /\ UNCHANGED <<heap, defaults>>

CallReadCsv ==
    /\ n_calls < MaxCalls
    /\ Record("read_csv_web", <<heap.grid_bytes>>, read_csv_web(heap.grid_bytes))
    /\ UNCHANGED <<heap, defaults>>

CallNext ==
    \/ CallVizPts
    \/ CallCreateLines
    \/ CallVizPtsColor
    \/ CallVizVoxOutlines
    \/ CallWriteCsv
    \/ CallReadCsv

SpecCalls == CallInit /\ [][CallNext]_vars

\* What the call gives when it is the first call made.
FirstResult(op, args) ==
    CASE op = "viz_pts" ->
            viz_pts(args[1], args[2],
                    IF args[3] = "default" THEN InitialDefaults.viz_pts
                    ELSE args[3]).result
      [] op = "create_lines" ->
            create_lines(args[1],
                         IF args[2] = "default" THEN InitialDefaults.create_lines
                         ELSE args[2]).result
      [] op = "viz_pts_color" -> viz_pts_color(args[1], args[2], args[3])
      [] op = "viz_vox_outlines" -> viz_vox_outlines(args[1], args[2], args[3])
      [] op = "write_csv_web" -> write_csv_web(args[1])
      [] OTHER -> read_csv_web(args[1])

\* C10: no call changes the lists it was given, the rgb_color defaults or any
\* other state of the modules, and each call's result is the one its arguments
\* give whatever calls were made before it.
NoCrossCallState ==
    /\ defaults = InitialDefaults
    /\ heap = heap_start
    /\ \A i \in 1..Len(history) :
          history[i].result = FirstResult(history[i].op, history[i].args)

\* viz_pts called with its default colour after create_lines was.
NoCrossCallStateWitness ==
    /\ n_calls = 2
    /\ history[1].op = "create_lines"
    /\ history[1].args[2] = "default"
    /\ history[2].op = "viz_pts"
    /\ history[2].args[3] = "default"
    /\ history[2].args[1] = <<0, 0, 0, 2, 0, 1>>
    /\ history[2].result.material.color = <<1, 1, 1>>

====
